---- MODULE Spec2Model ----
(***************************************************************************)
(* A model of cookiecutter/generate.py: generate_context (the context      *)
(* resolver) and generate_files (the tree walker) with the helpers they    *)
(* call.                                                                   *)
(*                                                                         *)
(* Text (a file name, a path, a context value) is a sequence of tokens.    *)
(* The tokens "{{" and "}}" are the template markers, "/" is the path      *)
(* separator, "." and ".." are the special path components, every other    *)
(* token is a run of ordinary characters.                                  *)
(***************************************************************************)
EXTENDS Naturals, Sequences, FiniteSets

Open == "{{"
Close == "}}"
Sep == "/"
Dot == "."
DotDot == ".."

IsWord(t) == t \notin {Open, Close, Sep, Dot, DotDot}

Contains(s, t) == \E i \in 1..Len(s) : s[i] = t

Last(s) == s[Len(s)]

Front(s) == SubSeq(s, 1, Len(s) - 1)

(***************************************************************************)
(* A context is an ordered mapping: a sequence of <<key, value>> pairs     *)
(* with pairwise distinct keys (an OrderedDict).                           *)
(***************************************************************************)
Keys(ctx) == {ctx[i][1] : i \in 1..Len(ctx)}

HasKey(ctx, k) == k \in Keys(ctx)

Lookup(ctx, k) == ctx[CHOOSE i \in 1..Len(ctx) : ctx[i][1] = k][2]

(***************************************************************************)
(* Template(s).render of the context.  "{{ name }}" is replaced by the value *)
(* of name, an undefined name renders as the empty text (jinja2's default  *)
(* Undefined), a "{{" that opens no well-formed expression is a            *)
(* TemplateSyntaxError, any other token is copied.  The substituted value  *)
(* is not rendered again.                                                  *)
(***************************************************************************)
RECURSIVE RenderFrom(_, _, _)
RenderFrom(s, i, ctx) ==
    IF i > Len(s) THEN [ok |-> TRUE, val |-> <<>>]
    ELSE IF s[i] = Open
    THEN IF i + 2 <= Len(s) /\ IsWord(s[i + 1]) /\ s[i + 2] = Close
         THEN LET rest == RenderFrom(s, i + 3, ctx)
                  v == IF HasKey(ctx, s[i + 1]) THEN Lookup(ctx, s[i + 1]) ELSE <<>>
              IN  [ok |-> rest.ok, val |-> v \o rest.val]
         ELSE [ok |-> FALSE, val |-> <<>>]
    ELSE LET rest == RenderFrom(s, i + 1, ctx)
         IN  [ok |-> rest.ok, val |-> <<s[i]>> \o rest.val]

render(s, ctx) == RenderFrom(s, 1, ctx)

(***************************************************************************)
(* os.path on token sequences (posixpath).                                 *)
(***************************************************************************)
isabs(p) == Len(p) > 0 /\ p[1] = Sep

join(a, b) ==
    IF isabs(b) THEN b
    ELSE IF a = <<>> \/ Last(a) = Sep THEN a \o b
    ELSE a \o <<Sep>> \o b

\* The index of the last separator of p, 0 when there is none.
RECURSIVE LastSep(_, _)
LastSep(p, i) == IF i = 0 THEN 0 ELSE IF p[i] = Sep THEN i ELSE LastSep(p, i - 1)

\* os.path.split(p)[1]
basename(p) == SubSeq(p, LastSep(p, Len(p)) + 1, Len(p))

\* p.split('/'): the components of p, empty ones included.
RECURSIVE SplitSep(_)
SplitSep(p) ==
    LET k == LastSep(p, Len(p))
    IN  IF k = 0 THEN <<p>>
        ELSE Append(SplitSep(SubSeq(p, 1, k - 1)), SubSeq(p, k + 1, Len(p)))

\* The loop of normpath over the components.
RECURSIVE NormComps(_, _, _)
NormComps(comps, acc, slashes) ==
    IF comps = <<>> THEN acc
    ELSE LET c == Head(comps)
         IN  IF c = <<>> \/ c = <<Dot>> THEN NormComps(Tail(comps), acc, slashes)
             ELSE IF c # <<DotDot>>
                     \/ (slashes = 0 /\ acc = <<>>)
                     \/ (acc # <<>> /\ Last(acc) = <<DotDot>>)
             THEN NormComps(Tail(comps), Append(acc, c), slashes)
             ELSE IF acc # <<>> THEN NormComps(Tail(comps), Front(acc), slashes)
             ELSE NormComps(Tail(comps), acc, slashes)

\* '/'.join(comps)
RECURSIVE JoinSep(_)
JoinSep(comps) ==
    IF comps = <<>> THEN <<>>
    ELSE IF Len(comps) = 1 THEN comps[1]
    ELSE comps[1] \o <<Sep>> \o JoinSep(Tail(comps))

\* The number of leading slashes normpath keeps: 0, 1, or 2 for exactly two.
InitialSlashes(p) ==
    IF ~isabs(p) THEN 0
    ELSE IF Len(p) >= 2 /\ p[2] = Sep /\ ~(Len(p) >= 3 /\ p[3] = Sep) THEN 2
    ELSE 1

normpath(p) ==
    LET n == InitialSlashes(p)
        body == JoinSep(NormComps(SplitSep(p), <<>>, n))
        lead == IF n = 0 THEN <<>> ELSE IF n = 1 THEN <<Sep>> ELSE <<Sep, Sep>>
    IN  IF lead \o body = <<>> THEN <<Dot>> ELSE lead \o body

abspath(p, wd) == normpath(join(wd, p))


(***************************************************************************)
(* The file system the run writes to: the directories and the files that   *)
(* exist, as resolved absolute paths.                                      *)
(***************************************************************************)
\* The path the kernel resolves p to from the working directory wd.
realpath(p, wd) ==
    LET a == abspath(p, wd) IN IF InitialSlashes(a) = 2 THEN Tail(a) ELSE a

Parent(q) ==
    LET k == LastSep(q, Len(q)) IN IF k <= 1 THEN <<Sep>> ELSE SubSeq(q, 1, k - 1)

\* q and every directory above it.
Ancestors(q) ==
    {<<Sep>>, q} \cup {SubSeq(q, 1, k - 1) : k \in {i \in 2..Len(q) : q[i] = Sep}}

\* p lies strictly below the directory d.
Under(p, d) == p # d /\ d \in Ancestors(p)

\* utils.make_sure_path_exists(path): the directory and its missing ancestors
\* are created, an existing directory is left as it is; a file in the way is
\* an error.
MkdirBlocked(q, fs) == Ancestors(q) \cap fs # {}

make_sure_path_exists(q, ds) == ds \cup Ancestors(q)

\* open(outfile, 'w') and shutil.copyfile(infile, outfile) need the directory
\* of outfile to exist and outfile not to be a directory.
Writable(q, ds) == Parent(q) \in ds /\ q \notin ds

(***************************************************************************)
(* generate.py, lines 148-174.                                             *)
(***************************************************************************)
NoError == "none"

\* render_and_create_dir without the call of make_sure_path_exists.
render_and_create_dir_unmade(dirname, ctx, outdir, wd, ds, fs) ==
    LET rendered_dirname == render(dirname, ctx)
        dir_to_create == normpath(join(outdir, rendered_dirname.val))
    IN  IF ~rendered_dirname.ok
        THEN [err |-> "TemplateSyntaxError", path |-> <<>>, dirs |-> ds]
        ELSE [err |-> NoError, path |-> dir_to_create, dirs |-> ds]

render_and_create_dir(dirname, ctx, outdir, wd, ds, fs) ==
    LET rendered_dirname == render(dirname, ctx)
        dir_to_create == normpath(join(outdir, rendered_dirname.val))
        q == realpath(dir_to_create, wd)
    IN  IF ~rendered_dirname.ok
        THEN [err |-> "TemplateSyntaxError", path |-> <<>>, dirs |-> ds]
        ELSE IF MkdirBlocked(q, fs)
        THEN [err |-> "OSError", path |-> <<>>, dirs |-> ds]
        ELSE [err |-> NoError, path |-> dir_to_create,
              dirs |-> make_sure_path_exists(q, ds)]

\* ensure_dir_is_templated with "or" for "and".
ensure_dir_is_templated_either(dirname) ==
    Contains(dirname, Open) \/ Contains(dirname, Close)

ensure_dir_is_templated(dirname) == Contains(dirname, Open) /\ Contains(dirname, Close)

(***************************************************************************)
(* generate_file, lines 113-145.  t is the template tree: t.binary are the *)
(* files is_binary finds binary, t.bad the files whose content is not a    *)
(* well-formed template.                                                   *)
(***************************************************************************)
\* generate_file that logs the copy of a binary file and does not make it.
generate_file_uncopied(project, infile, ctx, t, wd, ds, fs) ==
    LET name == render(infile, ctx)
        outfile == join(project, name.val)
        q == realpath(outfile, wd)
    IN  IF ~name.ok THEN [err |-> "TemplateSyntaxError", out |-> <<>>, files |-> fs]
        ELSE IF infile \in t.binary
        THEN [err |-> NoError, out |-> q, files |-> fs]
        ELSE IF infile \in t.bad
        THEN [err |-> "TemplateSyntaxError", out |-> <<>>, files |-> fs]
        ELSE IF Writable(q, ds)
        THEN [err |-> NoError, out |-> q, files |-> fs \cup {q}]
        ELSE [err |-> "IOError", out |-> <<>>, files |-> fs]

generate_file(project, infile, ctx, t, wd, ds, fs) ==
    LET name == render(infile, ctx)
        outfile == join(project, name.val)
        q == realpath(outfile, wd)
    IN  IF ~name.ok THEN [err |-> "TemplateSyntaxError", out |-> <<>>, files |-> fs]
        ELSE IF infile \in t.binary
        THEN IF Writable(q, ds)
             THEN [err |-> NoError, out |-> q, files |-> fs \cup {q}]
             ELSE [err |-> "IOError", out |-> <<>>, files |-> fs]
        ELSE IF infile \in t.bad
        THEN [err |-> "TemplateSyntaxError", out |-> <<>>, files |-> fs]
        ELSE IF Writable(q, ds)
        THEN [err |-> NoError, out |-> q, files |-> fs \cup {q}]
        ELSE [err |-> "IOError", out |-> <<>>, files |-> fs]


(***************************************************************************)
(* The inputs of generate_files.                                           *)
(***************************************************************************)
\* The deepest chain of nested template directories.
MaxDepth == 2

VarName == <<Open, "name", Close>>
VarA == <<Open, "a", Close>>
VarB == <<Open, "b", Close>>

\* The names the single child directory of the repository may have.
RootNames ==
    {VarName, <<"plainname">>, <<Open, "name">>, <<"name", Close>>,
     <<Close, "name", Open>>}

\* The context argument: None, or an ordered mapping of names to text.
ContextArgs ==
    {[none |-> TRUE, val |-> <<>>],
     [none |-> FALSE, val |-> << <<"name", <<"demo">>>>, <<"a", <<"x">>>>, <<"b", <<"y">>>> >>],
     [none |-> FALSE, val |-> << <<"name", <<"demo">>>>, <<"a", <<"x">>>>, <<"b", <<"x">>>> >>],
     [none |-> FALSE, val |-> << <<"name", VarA>>, <<"a", <<"x">>>>, <<"b", <<"y">>>> >>]}

OutputDirs == {<<Dot>>, <<"out">>, <<Sep, "o">>}

RepoDirs == {<<"repo">>, <<Sep, "r">>}

HookNames == {"pre_gen_project", "post_gen_project"}

\* The working directory of the process, and the directories that exist
\* before the run.
ProcessCwd == <<Sep, "w">>

Dirs0 == {<<Sep>>, <<Sep, "w">>, <<Sep, "o">>}

\* Template trees: the directories and files below the template root, as
\* os.walk(".") names them, with the binary files and the text files whose
\* content is not a well-formed template.
RECURSIVE Nest(_)
Nest(n) == IF n = 0 THEN <<Dot>> ELSE join(Nest(n - 1), VarA)

Deep(n) ==
    [dirs |-> {Nest(k) : k \in 1..n},
     files |-> {join(Nest(k), <<"README">>) : k \in 0..n},
     binary |-> {}, bad |-> {}]

TreeDemo ==
    [dirs |-> {},
     files |-> {<<Dot, Sep, "README">>, <<Dot, Sep, "logo">>},
     binary |-> {<<Dot, Sep, "logo">>}, bad |-> {}]

TreeClash ==
    [dirs |-> {},
     files |-> {join(<<Dot>>, VarA), join(<<Dot>>, VarB)},
     binary |-> {}, bad |-> {}]

TreeBad ==
    [dirs |-> {<<Dot, Sep, "sub">>},
     files |-> {<<Dot, Sep, "logo">>, <<Dot, Sep, "sub", Sep, "README">>},
     binary |-> {<<Dot, Sep, "logo">>}, bad |-> {<<Dot, Sep, "sub", Sep, "README">>}]

TreeMix ==
    [dirs |-> {join(<<Dot>>, VarB)},
     files |-> {join(<<Dot>>, VarA), join(join(<<Dot>>, VarB), <<"logo">>)},
     binary |-> {join(join(<<Dot>>, VarB), <<"logo">>)},
     bad |-> {join(join(<<Dot>>, VarB), <<"logo">>)}]

Trees == {TreeDemo, TreeClash, TreeBad, TreeMix} \cup {Deep(n) : n \in 0..MaxDepth}

\* os.path.split(p)[0] of an entry of the walk.
DirOf(p) == SubSeq(p, 1, LastSep(p, Len(p)) - 1)

\* The names os.walk lists in the directory r of the tree t.
ListDirs(t, r) == {basename(d) : d \in {e \in t.dirs : DirOf(e) = r}}

ListFiles(t, r) == {basename(f) : f \in {e \in t.files : DirOf(e) = r}}

\* The values generate_files can return.
Unset == [kind |-> "unset", path |-> <<>>]

NoneValue == [kind |-> "None", path |-> <<>>]

PathValue(p) == [kind |-> "path", path |-> p]


(***************************************************************************)
(* generate_files(repo_dir, context, output_dir), lines 177-226.           *)
(***************************************************************************)
VARIABLES
    repo_dir, child, context_arg, output_dir, tree, hooks,   \* the inputs
    pc, err, ret,               \* position, the exception raised, the value returned
    context, template_dir, unrendered_dir, project_dir,      \* the locals
    cwd,                        \* the working directory of the process
    dirs, files,                \* the file system
    written,                    \* <<infile, outfile>> of every file materialized
    preRuns, postRuns,          \* calls of run_hook for each hook
    root, dirsLeft, filesLeft,  \* the entry of os.walk being processed
    sub, stack,                 \* directories os.walk still has to descend into
    context_file, default_context, disk,     \* the inputs of generate_context
    json_encoding,              \* json.load takes the encoding keyword
    cpc, cerr, cret,            \* its position, exception and return value
    c_file, file_ext, c_context, loaded      \* its locals; the mapping it parsed

gvars ==
    <<repo_dir, child, context_arg, output_dir, tree, hooks, pc, err, ret, context,
      template_dir, unrendered_dir, project_dir, cwd, dirs, files, written,
      preRuns, postRuns, root, dirsLeft, filesLeft, sub, stack>>

cvars ==
    <<context_file, default_context, disk, json_encoding, cpc, cerr, cret, c_file, file_ext,
      c_context, loaded>>

inputs == <<repo_dir, child, context_arg, output_dir, tree, hooks>>

walk == <<root, dirsLeft, filesLeft, sub, stack>>

\* find.find_template(repo_dir): the path of the repository's template
\* directory.
find_template(repo, name) == join(repo, name)

\* hooks.run_hook(hook_name, project_dir): the exit statuses the hook can end
\* with; a hook the repository does not have is a no-op.
run_hook(hook_name, hs) == IF hook_name \in hs THEN {0, 1} ELSE {0}

\* utils.work_in(dirname): the working directory inside the with block.
work_in(dirname, wd) == realpath(dirname, wd)

\* An exception handler that removes what the run created.
unwind_rollback(ds, fs) == [dirs |-> Dirs0, files |-> {}]

\* An exception leaves generate_files through the with blocks only: nothing
\* catches it and nothing that was created is removed.
unwind(ds, fs) == [dirs |-> ds, files |-> fs]

\* The value of a call that reaches the end of generate_files.
return_value(project) == NoneValue

GenInit ==
    /\ repo_dir \in RepoDirs
    /\ child \in RootNames
    /\ context_arg \in ContextArgs
    /\ output_dir \in OutputDirs
    /\ tree \in Trees
    /\ hooks \in SUBSET HookNames
    /\ pc = "start"
    /\ err = NoError
    /\ ret = Unset
    /\ context = <<>>
    /\ template_dir = <<>>
    /\ unrendered_dir = <<>>
    /\ project_dir = <<>>
    /\ cwd = ProcessCwd
    /\ dirs = Dirs0
    /\ files = {}
    /\ written = {}
    /\ preRuns = 0
    /\ postRuns = 0
    /\ root = <<>>
    /\ dirsLeft = {}
    /\ filesLeft = {}
    /\ sub = <<>>
    /\ stack = <<>>

\* The exception e leaves generate_files, the file system holding the
\* directories ds and the files fs when it is raised.
Raise(e, ds, fs) ==
    /\ pc' = "failed"
    /\ err' = e
    /\ cwd' = ProcessCwd
    /\ dirs' = unwind(ds, fs).dirs
    /\ files' = unwind(ds, fs).files

\* What os.makedirs has created of q when the operating system stops it:
\* the directories down to some directory above q.
PartlyMade(q, ds) == {ds \cup Ancestors(a) : a \in Ancestors(q) \ {q}}

\* Lines 186-190.
Locate ==
    /\ pc = "start"
    /\ pc' = "located"
    /\ template_dir' = find_template(repo_dir, child)
    /\ context' = IF context_arg.none THEN <<>> ELSE context_arg.val
    /\ unrendered_dir' = basename(template_dir')
    /\ UNCHANGED <<inputs, err, ret, project_dir, cwd, dirs, files, written,
                   preRuns, postRuns, walk>>
    /\ UNCHANGED cvars

\* Lines 191-201.
RenderRoot ==
    /\ pc = "located"
    /\ IF ~ensure_dir_is_templated(unrendered_dir)
       THEN /\ Raise("NonTemplatedInputDirException", dirs, files)
            /\ UNCHANGED project_dir
       ELSE \E fault \in BOOLEAN :
            LET r == render_and_create_dir(unrendered_dir, context, output_dir,
                                           cwd, dirs, files)
            IN  IF r.err # NoError
                THEN /\ Raise(r.err, dirs, files)
                     /\ UNCHANGED project_dir
                ELSE IF fault
                THEN /\ \E ds \in PartlyMade(realpath(r.path, cwd), dirs) :
                           Raise("OSError", ds, files)
                     /\ UNCHANGED project_dir
                ELSE /\ pc' = "root_rendered"
                     /\ dirs' = r.dirs
                     /\ project_dir' = abspath(r.path, cwd)
                     /\ UNCHANGED <<err, cwd, files>>
    /\ UNCHANGED <<inputs, ret, context, template_dir, unrendered_dir, written,
                   preRuns, postRuns, walk>>
    /\ UNCHANGED cvars

\* Lines 205-212: the pre-generation hook, run from repo_dir, then the walk
\* is entered from template_dir.
PreHook ==
    /\ pc = "root_rendered"
    /\ preRuns' = preRuns + 1
    /\ \E status \in run_hook("pre_gen_project", hooks) :
          IF status # 0
          THEN /\ Raise("HookError", dirs, files)
               /\ UNCHANGED stack
          ELSE /\ pc' = "walk"
               /\ cwd' = work_in(template_dir, cwd)
               /\ stack' = <<<<Dot>>>>
               /\ UNCHANGED <<err, dirs, files>>
    /\ UNCHANGED <<inputs, ret, context, template_dir, unrendered_dir, project_dir,
                   written, postRuns, root, dirsLeft, filesLeft, sub>>
    /\ UNCHANGED cvars

\* Line 212: os.walk yields the next directory, top down, the directories it
\* listed first.
WalkEnter ==
    /\ pc = "walk"
    /\ dirsLeft = {} /\ filesLeft = {}
    /\ sub \o stack # <<>>
    /\ root' = Head(sub \o stack)
    /\ stack' = Tail(sub \o stack)
    /\ sub' = <<>>
    /\ dirsLeft' = ListDirs(tree, root')
    /\ filesLeft' = ListFiles(tree, root')
    /\ UNCHANGED <<inputs, pc, err, ret, context, template_dir, unrendered_dir,
                   project_dir, cwd, dirs, files, written, preRuns, postRuns>>
    /\ UNCHANGED cvars

\* Lines 213-217: the next directory of the listing, in the order of the
\* listing.  Line 214 assigns the local unrendered_dir.
WalkDir ==
    /\ pc = "walk"
    /\ \E d \in dirsLeft, fault \in BOOLEAN :
          LET unrendered == join(project_dir, join(root, d))
              r == render_and_create_dir(unrendered, context, output_dir,
                                         cwd, dirs, files)
          IN  /\ unrendered_dir' = unrendered
              /\ IF r.err # NoError
                 THEN /\ Raise(r.err, dirs, files)
                      /\ UNCHANGED <<dirsLeft, sub>>
                 ELSE IF fault
                 THEN /\ \E ds \in PartlyMade(realpath(r.path, cwd), dirs) :
                            Raise("OSError", ds, files)
                      /\ UNCHANGED <<dirsLeft, sub>>
                 ELSE /\ dirs' = r.dirs
                      /\ dirsLeft' = dirsLeft \ {d}
                      /\ sub' = Append(sub, join(root, d))
                      /\ UNCHANGED <<pc, err, cwd, files>>
    /\ UNCHANGED <<inputs, ret, context, template_dir, project_dir,
                   written, preRuns, postRuns, root, filesLeft, stack>>
    /\ UNCHANGED cvars

\* Lines 219-222: the next file of the listing.  The operating system may
\* refuse to open the output file ("open"), or refuse the write or the
\* copymode after the file was created ("write"), which leaves the file.
WalkFile ==
    /\ pc = "walk"
    /\ dirsLeft = {}
    /\ \E f \in filesLeft, fault \in {"none", "open", "write"} :
          LET infile == join(root, f)
              g == generate_file(project_dir, infile, context, tree, cwd, dirs, files)
          IN  IF g.err # NoError
              THEN /\ Raise(g.err, dirs, files)
                   /\ UNCHANGED <<filesLeft, written>>
              ELSE IF fault # "none"
              THEN /\ Raise("IOError", dirs, IF fault = "write" THEN g.files ELSE files)
                   /\ UNCHANGED <<filesLeft, written>>
              ELSE /\ files' = g.files
                   /\ filesLeft' = filesLeft \ {f}
                   /\ written' = written \cup {<<infile, g.out>>}
                   /\ UNCHANGED <<pc, err, cwd, dirs>>
    /\ UNCHANGED <<inputs, ret, context, template_dir, unrendered_dir, project_dir,
                   preRuns, postRuns, root, dirsLeft, sub, stack>>
    /\ UNCHANGED cvars

\* The post-generation hook inside the loop: run when one directory is done.
walk_finished_early == dirsLeft = {} /\ filesLeft = {} /\ root # <<>>

\* The for loop over os.walk(".") has ended: every listed entry was processed
\* and no directory is left to descend into.
walk_finished == dirsLeft = {} /\ filesLeft = {} /\ sub \o stack = <<>>

\* Lines 225-226: the post-generation hook, run from repo_dir, and the return.
PostHook ==
    /\ pc = "walk"
    /\ walk_finished
    /\ postRuns' = postRuns + 1
    /\ \E status \in run_hook("post_gen_project", hooks) :
          IF status # 0
          THEN /\ Raise("HookError", dirs, files)
               /\ UNCHANGED ret
          ELSE /\ pc' = "done"
               /\ ret' = return_value(project_dir)
               /\ cwd' = ProcessCwd
               /\ UNCHANGED <<err, dirs, files>>
    /\ UNCHANGED <<inputs, context, template_dir, unrendered_dir, project_dir,
                   written, preRuns, walk>>
    /\ UNCHANGED cvars

GenNext == Locate \/ RenderRoot \/ PreHook \/ WalkEnter \/ WalkDir \/ WalkFile \/ PostHook

(***************************************************************************)
(* generate_context(context_file, default_context), lines 48-86.           *)
(*                                                                         *)
(* A value of a mapping is a text or a nested mapping.  What a loader      *)
(* returns is a Python value: a dict (an ordered mapping), a list, a str   *)
(* or None.  A file on the disk is absent or holds one of: a mapping       *)
(* written as JSON; a mapping written as YAML that is not JSON; a JSON     *)
(* list; plain text (a YAML scalar, not JSON); nothing; text that neither  *)
(* format parses.                                                          *)
(***************************************************************************)
Text(t) == [isMap |-> FALSE, text |-> t, map |-> <<>>]

Map(m) == [isMap |-> TRUE, text |-> <<>>, map |-> m]

DefaultJson == <<"cookiecutter", ".json">>

DefaultYml == <<"cookiecutter", ".yml">>

FileNames == {DefaultJson, DefaultYml, <<"ctx", ".txt">>}

ExtTokens == {".json", ".yml", ".txt"}

\* The mappings a context file may hold.
Payloads ==
    {<< <<"name", Text(<<"demo">>)>>, <<"opts", Map(<< <<"x", Text(<<"0">>)>>, <<"y", Text(<<"2">>)>> >>)>> >>,
     << <<"opts", Text(<<"none">>)>>, <<"name", Text(<<"demo">>)>> >>}

\* The default_context argument: None, or a mapping.
Overlays ==
    {[none |-> TRUE, val |-> <<>>],
     [none |-> FALSE, val |-> <<>>],
     [none |-> FALSE, val |-> << <<"name", Text(<<"over">>)>> >>],
     [none |-> FALSE, val |-> << <<"opts", Map(<< <<"x", Text(<<"1">>)>> >>)>>, <<"new", Text(<<"n">>)>> >>]}

\* Python values.
Dict(pairs) == [type |-> "dict", pairs |-> pairs, elems |-> <<>>]

List(elems) == [type |-> "list", pairs |-> <<>>, elems |-> elems]

Str(text) == [type |-> "str", pairs |-> <<>>, elems |-> <<text>>]

None == [type |-> "NoneType", pairs |-> <<>>, elems |-> <<>>]

Absent == [kind |-> "absent", data |-> <<>>]

Contents(data) ==
    {Absent, [kind |-> "json", data |-> data], [kind |-> "yaml", data |-> data]}
        \cup {[kind |-> k, data |-> <<>>] : k \in {"json_list", "text", "empty", "bad"}}

\* os.path.exists(name)
exists(d, name) == name \in DOMAIN d /\ d[name].kind # "absent"

\* os.path.splitext(os.path.basename(name))[1]
splitext(name) ==
    LET b == basename(name)
    IN  IF Len(b) >= 2 /\ Last(b) \in ExtTokens THEN Last(b) ELSE ""

\* json.load(file_handle, encoding='utf-8', object_pairs_hook=OrderedDict),
\* lines 70-73.  An interpreter whose json.load has no encoding keyword
\* (Python 3.9 and later) raises TypeError before it reads.  Otherwise JSON
\* text loads as the value it writes, a mapping with its pairs in the order of
\* the text, and any other text is a ValueError.
json_load(content, accepts_encoding) ==
    IF ~accepts_encoding THEN [err |-> "TypeError", val |-> None]
    ELSE IF content.kind = "json" THEN [err |-> NoError, val |-> Dict(content.data)]
    ELSE IF content.kind = "json_list" THEN [err |-> NoError, val |-> List(<<"a", "b">>)]
    ELSE [err |-> "ValueError", val |-> None]

\* ordered_load, lines 36-45: YAML text, of which JSON text is a case, loads
\* as the value it writes: a mapping with its pairs in the order of the text,
\* a list, plain text as a str, an empty file as None.
ordered_load(content) ==
    IF content.kind \in {"json", "yaml"} THEN [err |-> NoError, val |-> Dict(content.data)]
    ELSE IF content.kind = "json_list" THEN [err |-> NoError, val |-> List(<<"a", "b">>)]
    ELSE IF content.kind = "text" THEN [err |-> NoError, val |-> Str("just some text")]
    ELSE IF content.kind = "empty" THEN [err |-> NoError, val |-> None]
    ELSE [err |-> "YAMLError", val |-> None]

\* An assignment that merges a nested mapping into the one already there.
SetItem_merge(ctx, k, v) ==
    IF HasKey(ctx, k)
    THEN [i \in 1..Len(ctx) |->
            IF ctx[i][1] # k THEN ctx[i]
            ELSE IF ctx[i][2].isMap /\ v.isMap
            THEN <<k, Map(ctx[i][2].map \o
                          SelectSeq(v.map, LAMBDA e : e[1] \notin Keys(ctx[i][2].map)))>>
            ELSE <<k, v>>]
    ELSE Append(ctx, <<k, v>>)

\* ctx[k] = v of an ordered mapping: an existing key keeps its place.
SetItem(ctx, k, v) ==
    IF HasKey(ctx, k)
    THEN [i \in 1..Len(ctx) |-> IF ctx[i][1] = k THEN <<k, v>> ELSE ctx[i]]
    ELSE Append(ctx, <<k, v>>)

\* dict.update(other) on the pairs of a mapping.
RECURSIVE update(_, _)
update(ctx, other) ==
    IF other = <<>> THEN ctx
    ELSE update(SetItem(ctx, other[1][1], other[1][2]), Tail(other))

\* Lines 60-64: the name of the file that is opened.
source_file(arg, d) ==
    LET named == IF arg.none THEN DefaultJson ELSE arg.name
    IN  IF ~exists(d, named) /\ exists(d, DefaultYml) THEN DefaultYml ELSE named

\* Lines 58 and 69-78: the context read from the open file, the {} of line 58
\* when the extension is neither ".json" nor ".yml".
load(ext, content, accepts_encoding) ==
    IF ext = ".json" THEN json_load(content, accepts_encoding)
    ELSE IF ext = ".yml" THEN ordered_load(content)
    ELSE [err |-> NoError, val |-> Dict(<<>>)]

\* Lines 82-83: a default_context that is not empty is laid over the
\* context with context.update, which only a mapping has.
overlay(ctx, arg) ==
    IF arg.none \/ arg.val = <<>> THEN [err |-> NoError, val |-> ctx]
    ELSE IF ctx.type # "dict" THEN [err |-> "AttributeError", val |-> ctx]
    ELSE [err |-> NoError, val |-> Dict(update(ctx.pairs, arg.val))]

CtxInit ==
    /\ context_file \in {[none |-> TRUE, name |-> <<>>]}
                        \cup {[none |-> FALSE, name |-> n] : n \in FileNames}
    /\ default_context \in Overlays
    /\ \E data \in Payloads : disk \in [FileNames -> Contents(data)]
    /\ json_encoding \in BOOLEAN
    /\ cpc = "c_start"
    /\ cerr = NoError
    /\ cret = [returned |-> FALSE, val |-> None]
    /\ c_file = <<>>
    /\ file_ext = ""
    /\ c_context = None
    /\ loaded = None

\* Lines 58-68: the file is chosen and opened.
CtxOpen ==
    /\ cpc = "c_start"
    /\ c_context' = Dict(<<>>)
    /\ c_file' = source_file(context_file, disk)
    /\ file_ext' = splitext(c_file')
    /\ IF exists(disk, c_file')
       THEN cpc' = "c_open" /\ UNCHANGED cerr
       ELSE cpc' = "c_failed" /\ cerr' = "IOError"
    /\ UNCHANGED <<context_file, default_context, disk, json_encoding, cret, loaded>>
    /\ UNCHANGED gvars

\* Lines 69-78: the file is parsed after its extension.
CtxLoad ==
    /\ cpc = "c_open"
    /\ LET r == load(file_ext, disk[c_file], json_encoding)
       IN  IF r.err = NoError
           THEN /\ cpc' = "c_loaded"
                /\ c_context' = r.val
                /\ loaded' = r.val
                /\ UNCHANGED cerr
           ELSE /\ cpc' = "c_failed"
                /\ cerr' = r.err
                /\ UNCHANGED <<c_context, loaded>>
    /\ UNCHANGED <<context_file, default_context, disk, json_encoding, cret, c_file,
                   file_ext>>
    /\ UNCHANGED gvars

\* Lines 80-86: the defaults are laid over the context, which is returned.
CtxReturn ==
    /\ cpc = "c_loaded"
    /\ LET r == overlay(c_context, default_context)
       IN  IF r.err = NoError
           THEN /\ cpc' = "c_done"
                /\ c_context' = r.val
                /\ cret' = [returned |-> TRUE, val |-> r.val]
                /\ UNCHANGED cerr
           ELSE /\ cpc' = "c_failed"
                /\ cerr' = r.err
                /\ UNCHANGED <<c_context, cret>>
    /\ UNCHANGED <<context_file, default_context, disk, json_encoding, c_file,
                   file_ext, loaded>>
    /\ UNCHANGED gvars

CtxNext == CtxOpen \/ CtxLoad \/ CtxReturn

\* The resolver while generate_files runs, and generate_files while the
\* resolver runs: not called.
CtxIdle ==
    /\ context_file = [none |-> TRUE, name |-> <<>>]
    /\ default_context = [none |-> TRUE, val |-> <<>>]
    /\ disk = [n \in FileNames |-> Absent]
    /\ json_encoding = TRUE
    /\ cpc = "c_idle"
    /\ cerr = NoError
    /\ cret = [returned |-> FALSE, val |-> None]
    /\ c_file = <<>>
    /\ file_ext = ""
    /\ c_context = None
    /\ loaded = None

GenIdle ==
    /\ repo_dir = <<"repo">>
    /\ child = VarName
    /\ context_arg = [none |-> TRUE, val |-> <<>>]
    /\ output_dir = <<Dot>>
    /\ tree = TreeDemo
    /\ hooks = {}
    /\ pc = "idle"
    /\ err = NoError
    /\ ret = Unset
    /\ context = <<>>
    /\ template_dir = <<>>
    /\ unrendered_dir = <<>>
    /\ project_dir = <<>>
    /\ cwd = ProcessCwd
    /\ dirs = Dirs0
    /\ files = {}
    /\ written = {}
    /\ preRuns = 0
    /\ postRuns = 0
    /\ root = <<>>
    /\ dirsLeft = {}
    /\ filesLeft = {}
    /\ sub = <<>>
    /\ stack = <<>>

vars == <<gvars, cvars>>

Init == GenInit /\ CtxIdle

Next == GenNext

Spec == Init /\ [][Next]_vars

InitCtx == CtxInit /\ GenIdle

NextCtx == CtxNext

SpecCtx == InitCtx /\ [][NextCtx]_vars

(***************************************************************************)
(* Properties of generate_files, under Spec.                               *)
(***************************************************************************)
\* The resolved project directory, and what lies below it.
ProjectPath == realpath(project_dir, ProcessCwd)

Below(d) == {p \in dirs \cup files : Under(p, d)}

\* The name of the repository's child holds both markers.
Templated == Contains(child, Open) /\ Contains(child, Close)

\* The output path generate_file gives the template file f.
OutPath(f) == realpath(join(project_dir, render(f, context).val), cwd)

Materialized == {w[1] : w \in written}

WalkErrors == {"TemplateSyntaxError", "OSError", "IOError"}

\* C1: when the pre-generation hook fails, the run ends there with no file
\* materialized, nothing created below the project directory, the
\* post-generation hook not invoked, and the project directory in place and
\* empty; a failed run takes no further step.
C1_PreHookFailure ==
    [][/\ (pc = "root_rendered" /\ pc' = "failed")
            => /\ err' = "HookError"
               /\ files' = {} /\ written' = {}
               /\ postRuns' = 0
               /\ realpath(project_dir', ProcessCwd) \in dirs'
               /\ \A p \in dirs' \cup files' :
                     ~Under(p, realpath(project_dir', ProcessCwd))
       /\ pc # "failed"]_vars

C1_Witness ==
    /\ pc = "failed" /\ err = "HookError" /\ preRuns = 1 /\ postRuns = 0
    /\ ProjectPath \in dirs \ Dirs0
    /\ tree.files # {}

\* C2: a run that completes returns the absolute path of the project
\* directory it created.
C2_ReturnsProjectDir ==
    pc = "done" => ret = PathValue(project_dir)

\* C3: a template root whose name does not hold both "{{" and "}}" makes the
\* run fail with NonTemplatedInputDirException with no directory or file
\* created and no hook run.
C3_UntemplatedRejected ==
    (~Templated /\ pc \notin {"start", "located"})
        => /\ pc = "failed"
           /\ err = "NonTemplatedInputDirException"
           /\ dirs = Dirs0 /\ files = {} /\ written = {}
           /\ preRuns = 0 /\ postRuns = 0

C3_Witness ==
    /\ pc = "failed" /\ err = "NonTemplatedInputDirException"
    /\ Contains(child, Open) /\ ~Contains(child, Close)

\* C4: the steps of a run follow the order located, root rendered, pre-hook
\* run, walk, post-hook run, done, none of them twice: each hook is invoked
\* at most once, the pre-hook before any file is materialized, the post-hook
\* only when every file of the tree has been materialized.
Rank(p) ==
    CASE p = "start" -> 0
      [] p = "located" -> 1
      [] p = "root_rendered" -> 2
      [] p = "walk" -> 3
      [] p = "done" -> 4
      [] OTHER -> 5

C4_Order ==
    /\ pc \in {"start", "located", "root_rendered"} => preRuns = 0 /\ written = {}
    /\ pc \in {"walk", "done"} => preRuns = 1
    /\ pc \in {"start", "located", "root_rendered", "walk"} => postRuns = 0
    /\ preRuns <= 1 /\ postRuns <= 1
    /\ written # {} => preRuns = 1
    /\ postRuns = 1 => Materialized = tree.files
    /\ pc = "done" => postRuns = 1

C4_LinearOrder ==
    [] C4_Order
    /\ [][pc' # pc => (pc' = "failed" \/ Rank(pc') = Rank(pc) + 1)]_vars
    /\ [][pc # "failed" /\ pc # "done"]_vars

C4_Witness ==
    /\ pc = "done" /\ preRuns = 1 /\ postRuns = 1
    /\ Cardinality(tree.files) >= 2 /\ tree.dirs # {}
    /\ hooks = HookNames

\* C5 as stated: when the pre-generation hook is about to run, this run has
\* created nothing, the project directory included.
C5_NothingBeforePreHook ==
    pc = "root_rendered" => (dirs = Dirs0 /\ files = {})

\* C5 amended: when the pre-generation hook is about to run, the project
\* directory exists, it and its missing ancestors are all this run has
\* created, and it is empty; no file is materialized and no template
\* directory rendered before the hook has run.
C5_RootBeforePreHook ==
    /\ pc = "root_rendered"
          => /\ ProjectPath \in dirs
             /\ dirs = Dirs0 \cup Ancestors(ProjectPath)
             /\ files = {} /\ written = {}
             /\ Below(ProjectPath) = {}
    /\ (dirs # Dirs0 \/ files # {}) => pc \notin {"start", "located"}
    /\ files # {} => preRuns = 1
    /\ (project_dir # <<>> /\ Below(ProjectPath) # {}) => preRuns = 1

C5_Witness ==
    pc = "root_rendered" /\ ProjectPath \notin Dirs0 /\ ProjectPath \in dirs

\* C6: when a file of the walk is about to be written, the directory of its
\* output path exists.
C6_ParentExists ==
    (pc = "walk" /\ dirsLeft = {})
        => \A f \in filesLeft :
              render(join(root, f), context).ok
                  => Parent(OutPath(join(root, f))) \in dirs

\* C9 as stated: after a successful run the project directory holds as many
\* files as the template tree.
C9_OneFilePerInput ==
    pc = "done" => Cardinality(files) = Cardinality(tree.files)

\* C9 amended: a successful run has written every template file to the
\* project directory joined with its rendered path and nothing else, so the
\* files are at most as many as the template files, and as many when no two
\* template files render to the same path.
C9_OneWritePerInput ==
    pc = "done"
        => /\ written = {<<f, OutPath(f)>> : f \in tree.files}
           /\ files = {OutPath(f) : f \in tree.files}
           /\ \A p \in files : Under(p, ProjectPath)
           /\ Cardinality(files) <= Cardinality(tree.files)
           /\ (\A f, g \in tree.files : OutPath(f) = OutPath(g) => f = g)
                 => Cardinality(files) = Cardinality(tree.files)

C9_Witness ==
    pc = "done" /\ Cardinality(files) < Cardinality(tree.files) /\ files # {}

\* C10: when creating a directory or materializing a file fails during the
\* walk, the run ends there: no entry is processed afterwards, the
\* post-generation hook is not invoked, and every directory and file
\* created before the failure is still there.
C10_NoRollback ==
    [][/\ (pc = "walk" /\ pc' = "failed" /\ err' \in WalkErrors)
            => /\ dirs \subseteq dirs' /\ files \subseteq files'
               /\ written' = written
               /\ root' = root /\ dirsLeft' = dirsLeft /\ filesLeft' = filesLeft
               /\ sub' = sub /\ stack' = stack
               /\ postRuns' = 0
       /\ pc # "failed"]_vars

C10_Witness ==
    /\ pc = "failed" /\ err \in WalkErrors
    /\ written # {} /\ files # {}
    /\ \E d \in dirs : Under(d, ProjectPath)
    /\ Materialized # tree.files
    /\ postRuns = 0

(***************************************************************************)
(* Properties of generate_context, under SpecCtx.                          *)
(***************************************************************************)
\* The overlay as a mapping: None is the empty one.
OverlayMap == IF default_context.none THEN <<>> ELSE default_context.val

\* C7: the context returned for a loaded mapping maps every key of the
\* overlay to the overlay's value, whole, and every other key of the loaded
\* context to its loaded value, and has no other key; without an overlay the
\* loaded value is returned as it is.
C7_OverlayPrecedence ==
    cpc = "c_done"
        => /\ cret.returned
           /\ OverlayMap = <<>> => cret.val = loaded
           /\ OverlayMap # <<>> => (loaded.type = "dict" /\ cret.val.type = "dict")
           /\ Keys(cret.val.pairs) = Keys(loaded.pairs) \cup Keys(OverlayMap)
           /\ \A k \in Keys(OverlayMap) :
                 Lookup(cret.val.pairs, k) = Lookup(OverlayMap, k)
           /\ \A k \in Keys(loaded.pairs) \ Keys(OverlayMap) :
                 Lookup(cret.val.pairs, k) = Lookup(loaded.pairs, k)

C7_Witness ==
    /\ cpc = "c_done"
    /\ \E k \in Keys(OverlayMap) \cap Keys(loaded.pairs) :
          /\ Lookup(OverlayMap, k).isMap /\ Lookup(loaded.pairs, k).isMap
          /\ Lookup(OverlayMap, k) # Lookup(loaded.pairs, k)
    /\ Keys(loaded.pairs) \ Keys(OverlayMap) # {}
    /\ Keys(OverlayMap) \ Keys(loaded.pairs) # {}

\* C8: a context is returned only for a source that exists and parses, under
\* a supported format, to a mapping.
C8_NoContextWithoutParse ==
    cpc = "c_done" => (exists(disk, c_file) /\ disk[c_file].kind \in {"json", "yaml"})

====
